---- MODULE Spec2Model ----
(***************************************************************************)
(* tree-viz: a live terminal viewer of a tree-sitter syntax tree.          *)
(*                                                                         *)
(* The specifications, over one set of variables:                          *)
(*   SpecDraw  App::draw (src/src/app.rs) as a state machine: the capture  *)
(*             index, the cursor walk, the highlight region, the lines.    *)
(*   Spec      main (src/src/main.rs): the RwLock<App>, the two watcher    *)
(*             callbacks, the keyboard thread, the channel, the poll loop. *)
(*   SpecFair  Spec with every thread scheduled again and again.           *)
(***************************************************************************)
EXTENDS Integers, Sequences, FiniteSets, TLC

(* ------------------------------ bounds -------------------------------- *)
MaxNodes == 4
MaxByte == 2
MaxCaptures == 2
MaxSlot == 1

(* ----------------------------- constants ------------------------------ *)
DefaultIndent == 2
Malformed == 0

MaxEvents == 2
MaxVersion == 2

VARIABLES
  app,      \* the App behind the RwLock
  d,        \* the locals of a draw in progress (SpecDraw)
  lock,     \* the RwLock: its writer, its readers, whether it is poisoned
  pc,       \* where each thread is
  op,       \* the event a thread is handling
  new,      \* the local `new` of a reload in progress
  chan,     \* the mpsc channel from the keyboard thread to main
  inbox,    \* the modify notifications a watcher has yet to deliver
  disk,     \* the contents of the source file and of the query file
  screen,   \* what the terminal shows
  running,  \* the process is alive
  hist      \* history: events so far, what became of them, the serial state

syncVars == <<lock, pc, op, new, chan, inbox, disk, screen, running, hist>>
vars == <<app, d, lock, pc, op, new, chan, inbox, disk, screen, running, hist>>

(* Option<T> *)
None == <<>>
Some(x) == <<x>>
IsSome(o) == o # <<>>
Unwrap(o) == o[1]

Min(S) == CHOOSE x \in S : \A y \in S : x <= y

(* ------------------------------ config.rs ----------------------------- *)
ConfigNew ==
  [indent_level |-> DefaultIndent, show_ranges |-> TRUE, show_src |-> TRUE,
   show_field_name |-> TRUE]

(* --------------------- tree_sitter::Range, contains ------------------- *)
Range(s, e) == [start_byte |-> s, end_byte |-> e]

Ranges == {Range(s, e) : <<s, e>> \in {x \in (0..MaxByte) \X (0..MaxByte) : x[1] <= x[2]}}

containsStartOnly(a, b) == a.start_byte <= b.start_byte

containsStrictly(a, b) == a.start_byte < b.start_byte /\ a.end_byte > b.end_byte

contains(a, b) == a.start_byte <= b.start_byte /\ a.end_byte >= b.end_byte

(* ------------------------- tree_sitter::Tree -------------------------- *)
(* A tree is [n, parent, range]: nodes 1..n, node 1 the root (parent 0),   *)
(* the children of a node ordered by their number.  Every child's range    *)
(* lies within its parent's, and siblings follow one another in the text.  *)
(* Nodes are numbered level by level (a node's parent is never numbered    *)
(* below the parent of the node before it), so that each tree has one      *)
(* numbering.                                                              *)
Root == 1

Children(t, p) == {i \in 1..t.n : t.parent[i] = p}

Encloses(outer, r) == outer.start_byte <= r.start_byte /\ r.end_byte <= outer.end_byte

Fits(t, p, r) ==
  /\ p >= t.parent[t.n]
  /\ Encloses(t.range[p], r)
  /\ \A c \in Children(t, p) : t.range[c].end_byte <= r.start_byte

Grow(t) ==
  {[n |-> t.n + 1, parent |-> Append(t.parent, x[1]), range |-> Append(t.range, x[2])] :
     x \in {y \in (1..t.n) \X Ranges : Fits(t, y[1], y[2])}}

(* a root over the whole text, one token per byte, then zero-width nodes *)
Clamp(x) == IF x > MaxByte THEN MaxByte ELSE x

FlatTree(n) ==
  [n |-> n, parent |-> [i \in 1..n |-> IF i = 1 THEN 0 ELSE 1],
   range |-> [i \in 1..n |-> IF i = 1 THEN Range(0, MaxByte)
                                      ELSE Range(Clamp(i - 2), Clamp(i - 1))]]

(* ----------------------- tree_sitter::TreeCursor ---------------------- *)
(* each yields the node the cursor moves to, or 0 when the call returns    *)
(* false and the cursor stays                                              *)
GotoFirstChild(t, c) == IF Children(t, c) = {} THEN 0 ELSE Min(Children(t, c))

LaterSiblings(t, c) == {i \in Children(t, t.parent[c]) : i > c}

GotoNextSibling(t, c) ==
  IF c = Root \/ LaterSiblings(t, c) = {} THEN 0 ELSE Min(LaterSiblings(t, c))

GotoParent(t, c) == t.parent[c]

(* ------------------------- Query, QueryCursor ------------------------- *)
(* A compiled query is [capture_names, patterns]; a pattern is a sequence  *)
(* of captures [node, index], and matches on a tree that has all its nodes *)
CaptureNames == [i \in 1..(MaxSlot + 2) |-> i - 1]

Capture(n, i) == [node |-> n, index |-> i]

PatternMatches(pattern, t) == \A k \in 1..Len(pattern) : pattern[k].node <= t.n

RECURSIVE Matches(_, _)
Matches(patterns, t) ==
  IF patterns = <<>> THEN <<>>
  ELSE IF PatternMatches(Head(patterns), t)
       THEN <<Head(patterns)>> \o Matches(Tail(patterns), t)
       ELSE Matches(Tail(patterns), t)

(* flat_map(|match_| match_.captures) *)
RECURSIVE FlatMapCaptures(_)
FlatMapCaptures(ms) ==
  IF ms = <<>> THEN <<>> ELSE Head(ms) \o FlatMapCaptures(Tail(ms))

(* ------------------------- App::draw: capture_map --------------------- *)
EmptyMap == [x \in {} |-> <<>>]

FoldStepOverwrite(map, capture) ==
  IF capture.node \in DOMAIN map
  THEN [map EXCEPT ![capture.node] = <<capture.index>>]
  ELSE map @@ (capture.node :> <<capture.index>>)

(* map.entry(node).and_modify(|idxs| idxs.push(index)).or_insert_with(..)  *)
FoldStep(map, capture) ==
  IF capture.node \in DOMAIN map
  THEN [map EXCEPT ![capture.node] = Append(@, capture.index)]
  ELSE map @@ (capture.node :> <<capture.index>>)

RECURSIVE Fold(_, _)
Fold(map, captures) ==
  IF captures = <<>> THEN map ELSE Fold(FoldStep(map, Head(captures)), Tail(captures))

CaptureMap(self) ==
  IF IsSome(self.query)
  THEN Fold(EmptyMap, FlatMapCaptures(Matches(Unwrap(self.query).patterns, self.tree)))
  ELSE EmptyMap

(* ------------------------- App::draw: in_capture ---------------------- *)
InCaptureReplacing(in_capture, range, captured) ==
  IF captured THEN Some(range)
  ELSE IF IsSome(in_capture) /\ ~contains(Unwrap(in_capture), range) THEN None
  ELSE in_capture

InCaptureNeverClearing(in_capture, range, captured) ==
  IF ~IsSome(in_capture) /\ captured THEN Some(range) ELSE in_capture

InCapture(in_capture, range, captured) ==
  IF IsSome(in_capture) /\ ~contains(Unwrap(in_capture), range) /\ captured
    THEN Some(range)
  ELSE IF IsSome(in_capture) /\ ~contains(Unwrap(in_capture), range)
    THEN None
  ELSE IF ~IsSome(in_capture) /\ captured
    THEN Some(range)
  ELSE in_capture

(* ------------------------- App::draw: one line ------------------------ *)
Line(self, st, node, region) ==
  [node |-> node,
   depth |-> st.depth,
   indent |-> st.depth * (1 + self.config.indent_level),
   region |-> region,
   highlighted |-> IsSome(region),
   tags |-> IF node \in DOMAIN st.capture_map
            THEN [k \in 1..Len(st.capture_map[node]) |->
                    Unwrap(self.query).capture_names[st.capture_map[node][k] + 1]]
            ELSE <<>>,
   range |-> IF self.config.show_ranges THEN Some(self.tree.range[node]) ELSE None,
   text |-> IF self.config.show_src THEN Some(<<self.src, self.tree.range[node]>>) ELSE None]

Footer ==
  <<"(>) increase indent", "(<) decrease indent ", "(n) toggle ranges",
    "(s) toggle source text", "(r) reload from disk", "(C-c) quit">>

(* ------------------------- App::draw: the walk ------------------------ *)
DrawBeginInRegion(self) ==
  [at |-> "loop", done |-> FALSE, depth |-> 0, in_capture |-> Some(self.tree.range[Root]),
   cursor |-> Root, capture_map |-> CaptureMap(self), out |-> <<>>, help |-> <<>>]

(* the locals of draw; at is the place in the function                     *)
DrawBegin(self) ==
  [at |-> "loop", done |-> FALSE, depth |-> 0, in_capture |-> None, cursor |-> Root,
   capture_map |-> CaptureMap(self), out |-> <<>>, help |-> <<>>]

(* the head of the while loop to the two continue statements *)
LoopBody(self, st) ==
  LET node == st.cursor
      region == InCapture(st.in_capture, self.tree.range[node], node \in DOMAIN st.capture_map)
      shown == [st EXCEPT !.in_capture = region,
                          !.out = Append(@, Line(self, st, node, region))]
  IN IF GotoFirstChild(self.tree, node) # 0
       THEN [shown EXCEPT !.cursor = GotoFirstChild(self.tree, node), !.depth = @ + 1]
     ELSE IF GotoNextSibling(self.tree, node) # 0
       THEN [shown EXCEPT !.cursor = GotoNextSibling(self.tree, node)]
     ELSE [shown EXCEPT !.at = "ascend"]

AscendKeepingDepth(self, st) ==
  IF GotoParent(self.tree, st.cursor) = 0
    THEN [st EXCEPT !.done = TRUE, !.at = "footer"]
  ELSE LET up == [st EXCEPT !.cursor = GotoParent(self.tree, st.cursor)]
       IN IF GotoNextSibling(self.tree, up.cursor) # 0
            THEN [up EXCEPT !.cursor = GotoNextSibling(self.tree, up.cursor), !.at = "loop"]
          ELSE up

AscendOnce(self, st) ==
  IF GotoParent(self.tree, st.cursor) = 0
    THEN [st EXCEPT !.done = TRUE, !.at = "footer"]
  ELSE LET up == [st EXCEPT !.cursor = GotoParent(self.tree, st.cursor), !.depth = @ - 1]
       IN IF GotoNextSibling(self.tree, up.cursor) # 0
            THEN [up EXCEPT !.cursor = GotoNextSibling(self.tree, up.cursor), !.at = "loop"]
          ELSE [up EXCEPT !.done = TRUE, !.at = "footer"]

(* one iteration of the inner loop *)
Ascend(self, st) ==
  IF GotoParent(self.tree, st.cursor) = 0
    THEN [st EXCEPT !.done = TRUE, !.at = "footer"]
  ELSE LET up == [st EXCEPT !.cursor = GotoParent(self.tree, st.cursor), !.depth = @ - 1]
       IN IF GotoNextSibling(self.tree, up.cursor) # 0
            THEN [up EXCEPT !.cursor = GotoNextSibling(self.tree, up.cursor), !.at = "loop"]
          ELSE up

WriteFooter(st) == [st EXCEPT !.help = Footer, !.at = "end"]

DrawStep(self, st) ==
  CASE st.at = "loop" -> LoopBody(self, st)
    [] st.at = "ascend" -> Ascend(self, st)
    [] st.at = "footer" -> WriteFooter(st)
    [] OTHER -> st

(* the steps of a draw to its end; each state is computed once, as the     *)
(* element of a singleton                                                  *)
RECURSIVE DrawRun(_, _)
DrawRun(self, st) ==
  IF st.at = "end" THEN st
  ELSE CHOOSE end \in {DrawRun(self, next) : next \in {DrawStep(self, st)}} : TRUE

(* what the terminal shows after a whole draw *)
Draw(self) ==
  CHOOSE shown \in {end.out \o end.help :
                      end \in {DrawRun(self, st) : st \in {DrawBegin(self)}}} : TRUE

(* ----------------------- SpecDraw: inputs of draw --------------------- *)
Query(patterns) == [capture_names |-> CaptureNames, patterns |-> patterns]

Slots == 0..MaxSlot

RECURSIVE SeqsUpTo(_, _)
SeqsUpTo(S, n) ==
  IF n = 0 THEN {<<>>}
  ELSE LET shorter == SeqsUpTo(S, n - 1)
       IN shorter \cup {Append(s, x) : <<s, x>> \in {y \in shorter \X S : Len(y[1]) = n - 1}}

(* every split of a sequence of captures into consecutive non-empty matches *)
RECURSIVE Splits(_)
Splits(cs) ==
  IF cs = <<>> THEN {<<>>}
  ELSE UNION {{<<SubSeq(cs, 1, k)>> \o rest : rest \in Splits(SubSeq(cs, k + 1, Len(cs)))} :
                k \in 1..Len(cs)}

PatternsOver(n) ==
  UNION {Splits(cs) : cs \in SeqsUpTo({Capture(x[1], x[2]) : x \in (1..n) \X Slots}, MaxCaptures)}

RECURSIVE SinglePatterns(_, _)
SinglePatterns(S, n) ==
  IF n = 0 THEN <<>>
  ELSE IF n \in S THEN Append(SinglePatterns(S, n - 1), <<Capture(n, 0)>>)
       ELSE SinglePatterns(S, n - 1)

PatternsFor(t) ==
  {SinglePatterns(S, t.n) : S \in SUBSET (1..t.n)}
    \cup (IF t = FlatTree(MaxNodes) THEN PatternsOver(t.n) ELSE {})

(* ------------------------------ App::new ------------------------------ *)
SourcePath == "source"
QueryPath == "query"

(* the parser on the texts of Spec: text v is v tokens under the root *)
Parse(src) == FlatTree(1 + src)

(* Query::new on the texts of Spec: text v captures node v + 1 in slot 0;  *)
(* None is the Err of a query that does not compile                        *)
QueryNew(text) ==
  IF text = Malformed THEN None ELSE Some(Query(<<<<Capture(1 + text, 0)>>>>))

(* the grammar chosen on the command line *)
Language == "rust"

AppNew(src, path, query_path, query) ==
  [config |-> ConfigNew, language |-> Language, path |-> path, query |-> query,
   query_path |-> query_path, src |-> src, tree |-> Parse(src)]

DrawIdle ==
  [at |-> "idle", done |-> FALSE, depth |-> 0, in_capture |-> None, cursor |-> Root,
   capture_map |-> EmptyMap, out |-> <<>>, help |-> <<>>]

(* ------------------------ App: the key handlers ----------------------- *)
(* usize::saturating_add: the model's bounds keep the width far below      *)
(* usize::MAX, where it would stay                                         *)
increase_indent(self) == [self EXCEPT !.config.indent_level = @ + 1]

decrease_indent_wrapping(self) == [self EXCEPT !.config.indent_level = @ - 1]

decrease_indent(self) ==
  [self EXCEPT !.config.indent_level = IF @ = 0 THEN 0 ELSE @ - 1]

toggle_rangesClearing(self) == [self EXCEPT !.config.show_ranges = FALSE]

toggle_ranges(self) == [self EXCEPT !.config.show_ranges = ~@]

toggle_sourceAndFieldName(self) ==
  [self EXCEPT !.config.show_src = ~@, !.config.show_field_name = ~@]

toggle_source(self) == [self EXCEPT !.config.show_src = ~@]

(* ------------------------------ main.rs ------------------------------- *)
Threads == {"main", "watcher1", "watcher2"}
Watchers == {"watcher1", "watcher2"}
NoOne == "none"
Keys == {">", "<", "n", "s", "r", "x"}

Home(t) == IF t = "main" THEN "poll" ELSE "wait"

WatcherOf(path) == IF path = SourcePath THEN "watcher1" ELSE "watcher2"

(* fs::read_to_string: None is Err *)
SourceContents == {None} \cup {Some(v) : v \in 1..MaxVersion}
QueryContents == {Some(v) : v \in 0..MaxVersion}

(* RwLock::try_write and RwLock::try_read: TRUE is Ok *)
TryWriteIgnoringOthers(l) == ~l.poisoned

TryWrite(l) == l.writer = NoOne /\ l.readers = 0 /\ ~l.poisoned

TryRead(l) == l.writer = NoOne /\ ~l.poisoned

Held(l) == l.writer # NoOne \/ l.readers > 0

KeyEvent(id, key) == [id |-> id, kind |-> "key", key |-> key]
ModifyEvent(id, path) == [id |-> id, kind |-> "modify", key |-> path]

IsReload(ev) == ev.kind = "modify" \/ ev.key = "r"

(* the match of the poll loop on a key other than 'r' *)
HandleKey(self, key) ==
  CASE key = ">" -> increase_indent(self)
    [] key = "<" -> decrease_indent(self)
    [] key = "n" -> toggle_ranges(self)
    [] key = "s" -> toggle_source(self)
    [] OTHER -> self

(* what one handler does to the App when nothing else runs beside it *)
Sequential(self, ev, built) ==
  IF IsReload(ev)
  THEN [self EXCEPT !.src = built.src, !.tree = built.tree, !.query = built.query]
  ELSE HandleKey(self, ev.key)

ReloadPcs == {"reload", "reload_query", "assign", "assign_rest"}
WriteSection == {"locked", "draw", "unlock"} \cup ReloadPcs
ReadSection == {"first_draw", "first_unlock"}

ReloadInProgress == \E t \in Threads : pc[t] \in ReloadPcs

SyncInit ==
  /\ lock = [writer |-> NoOne, readers |-> 0, poisoned |-> FALSE]
  /\ pc = [t \in Threads |-> IF t = "main" THEN "start" ELSE "wait"]
  /\ op = [t \in Threads |-> None]
  /\ new = [t \in Threads |-> None]
  /\ chan = <<>>
  /\ inbox = [w \in Watchers |-> <<>>]
  /\ disk = [source |-> Some(1), query |-> Some(1)]
  /\ screen = <<>>
  /\ running = TRUE
  /\ hist = [events |-> 0, acted |-> {}, dropped |-> {}, late |-> {}, missed |-> {},
            shadow |-> app]

(* main up to the spawn of the keyboard thread: the App is built from the  *)
(* files as they are, with or without a query path                         *)
Init ==
  /\ app \in {AppNew(1, SourcePath, None, None),
              AppNew(1, SourcePath, Some(QueryPath), QueryNew(1))}
  /\ d = DrawIdle
  /\ SyncInit

Goto(t, where) == pc' = [pc EXCEPT ![t] = where]

Acted(t) == hist' = [hist EXCEPT !.acted = @ \cup {Unwrap(op[t])}]

(* a try_write gave Ok: `missed` is, until the guard is dropped, the set *)
(* of events skipped before it                                            *)
Acquired == hist' = [hist EXCEPT !.missed = hist.dropped]

(* the thread that receives an event: main the keys, a watcher's callback *)
(* the notifications of its file                                          *)
HandlerOf(ev) == IF ev.kind = "key" THEN "main" ELSE WatcherOf(ev.key)

(* an event is sent or notified: `late` holds, until their handler is     *)
(* done with them, the events that arrived while a reload was in progress *)
(* in the thread that receives them                                       *)
Arrived(ev) ==
  hist' = [hist EXCEPT !.events = ev.id,
                       !.late = IF pc[HandlerOf(ev)] \in ReloadPcs THEN @ \cup {ev} ELSE @]

(* ---- the environment: the user and the editors of the two files ---- *)
(* the keyboard thread: term.read_key, tx0.send *)
KeyPress ==
  /\ running
  /\ hist.events < MaxEvents
  /\ \E key \in Keys :
       LET ev == KeyEvent(hist.events + 1, key)
       IN chan' = Append(chan, ev) /\ Arrived(ev)
  /\ UNCHANGED <<app, d, lock, pc, op, new, inbox, disk, screen, running>>

(* a write to a watched file: its watcher is notified of a Modify event *)
Edit(path, contents) ==
  /\ running
  /\ hist.events < MaxEvents
  /\ \E c \in contents \ {disk[path]} :
       LET ev == ModifyEvent(hist.events + 1, path)
       IN /\ disk' = [disk EXCEPT ![path] = c]
          /\ inbox' = [inbox EXCEPT ![WatcherOf(path)] = Append(@, ev)]
          /\ Arrived(ev)
  /\ UNCHANGED <<app, d, lock, pc, op, new, chan, screen, running>>

EditSource == Edit(SourcePath, SourceContents)

EditQuery == IsSome(app.query_path) /\ Edit(QueryPath, QueryContents)

(* ---- a panic: the unwrap of a failed read, parse or compile ---- *)
(* In main it ends the process.  In a watcher's thread it ends the process *)
(* when panics abort; when they unwind it ends that thread, and the write  *)
(* guard dropped on the way poisons the lock.                              *)
Panic(t) ==
  /\ Goto(t, "panicked")
  /\ \/ /\ running' = FALSE
        /\ UNCHANGED <<lock, op, new>>
     \/ /\ t # "main"
        /\ lock' = [lock EXCEPT !.writer = NoOne, !.poisoned = TRUE]
        /\ op' = [op EXCEPT ![t] = None]
        /\ new' = [new EXCEPT ![t] = None]
        /\ UNCHANGED running
  /\ UNCHANGED <<app, d, chan, inbox, disk, screen, hist>>

(* ---- App::reload, run by the thread that holds the write lock ---- *)
(* fs::read_to_string(&self.path).unwrap(), parser.parse(..).unwrap() *)
ReloadRead(t) ==
  /\ running
  /\ pc[t] = "reload"
  /\ IF IsSome(disk[app.path])
     THEN /\ new' = [new EXCEPT ![t] =
                       Some([src |-> Unwrap(disk[app.path]),
                             tree |-> Parse(Unwrap(disk[app.path])),
                             query |-> None])]
          /\ Goto(t, "reload_query")
          /\ UNCHANGED <<app, d, lock, op, chan, inbox, disk, screen, running, hist>>
     ELSE Panic(t)

(* query_path.map(read_to_string(..).expect(..), Query::new(..).expect(..)) *)
ReloadQuery(t) ==
  /\ running
  /\ pc[t] = "reload_query"
  /\ IF ~IsSome(app.query_path)
     THEN /\ Goto(t, "assign")
          /\ UNCHANGED <<app, d, lock, op, new, chan, inbox, disk, screen, running, hist>>
     ELSE IF IsSome(disk[Unwrap(app.query_path)])
             /\ IsSome(QueryNew(Unwrap(disk[Unwrap(app.query_path)])))
     THEN /\ new' = [new EXCEPT ![t] =
                       Some([Unwrap(@) EXCEPT
                               !.query = QueryNew(Unwrap(disk[Unwrap(app.query_path)]))])]
          /\ Goto(t, "assign")
          /\ UNCHANGED <<app, d, lock, op, chan, inbox, disk, screen, running, hist>>
     ELSE Panic(t)

ReloadAssignResettingConfig(t) ==
  /\ running
  /\ pc[t] = "assign"
  /\ app' = [app EXCEPT !.src = Unwrap(new[t]).src, !.tree = Unwrap(new[t]).tree,
                        !.config = ConfigNew]
  /\ Goto(t, "assign_rest")
  /\ Acted(t)
  /\ UNCHANGED <<d, lock, op, new, chan, inbox, disk, screen, running>>

(* *self = Self { config: self.config, ..new }: the fields are stored one  *)
(* after another, the source and its tree first; path, query_path and      *)
(* language come back from new as App::new was given them                  *)
ReloadAssign(t) ==
  /\ running
  /\ pc[t] = "assign"
  /\ app' = [app EXCEPT !.src = Unwrap(new[t]).src, !.tree = Unwrap(new[t]).tree]
  /\ Goto(t, "assign_rest")
  /\ Acted(t)
  /\ UNCHANGED <<d, lock, op, new, chan, inbox, disk, screen, running>>

ReloadAssignRest(t) ==
  /\ running
  /\ pc[t] = "assign_rest"
  /\ app' = [app EXCEPT !.query = Unwrap(new[t]).query]
  /\ Goto(t, "draw")
  /\ UNCHANGED <<d, lock, op, new, chan, inbox, disk, screen, running, hist>>

(* locked.draw() *)
DrawLocked(t) ==
  /\ running
  /\ pc[t] = "draw"
  /\ screen' = Draw(app)
  /\ Goto(t, "unlock")
  /\ Acted(t)
  /\ UNCHANGED <<app, d, lock, op, new, chan, inbox, disk, running>>

(* the write guard goes out of scope *)
Unlock(t) ==
  /\ running
  /\ pc[t] = "unlock"
  /\ lock' = [lock EXCEPT !.writer = NoOne]
  /\ Goto(t, Home(t))
  /\ op' = [op EXCEPT ![t] = None]
  /\ new' = [new EXCEPT ![t] = None]
  /\ hist' = [hist EXCEPT !.shadow =
                Sequential(@, Unwrap(op[t]), IF IsSome(new[t]) THEN Unwrap(new[t]) ELSE None),
                           !.late = @ \ {Unwrap(op[t])},
                           !.missed = {}]
  /\ UNCHANGED <<app, d, chan, inbox, disk, screen, running>>

(* ---- the watcher callbacks ---- *)
WatcherSkipReloading(w, ev) ==
  /\ hist' = [hist EXCEPT !.dropped = IF Held(lock) THEN @ \cup {ev} ELSE @,
                       !.late = @ \ {ev}]
  /\ IF IsSome(disk[app.path])
     THEN app' = [app EXCEPT !.src = Unwrap(disk[app.path]),
                             !.tree = Parse(Unwrap(disk[app.path]))]
     ELSE UNCHANGED app
  /\ UNCHANGED <<d, lock, pc, op, new, chan, disk, screen, running>>

(* try_write gave Err: the callback returns *)
WatcherSkip(w, ev) ==
  /\ hist' = [hist EXCEPT !.dropped = IF Held(lock) THEN @ \cup {ev} ELSE @,
                       !.late = @ \ {ev}]
  /\ UNCHANGED <<app, d, lock, pc, op, new, chan, disk, screen, running>>

(* the callback on a Modify event *)
WatchModify(w) ==
  /\ running
  /\ pc[w] = "wait"
  /\ inbox[w] # <<>>
  /\ inbox' = [inbox EXCEPT ![w] = Tail(@)]
  /\ IF TryWrite(lock)
     THEN /\ lock' = [lock EXCEPT !.writer = w]
          /\ op' = [op EXCEPT ![w] = Some(Head(inbox[w]))]
          /\ Goto(w, "reload")
          /\ Acquired
          /\ UNCHANGED <<app, d, new, chan, disk, screen, running>>
     ELSE WatcherSkip(w, Head(inbox[w]))

(* the callback on an event of another kind, or on an Err *)
WatchOther(w) == running /\ pc[w] = "wait" /\ UNCHANGED vars

(* ---- the main thread ---- *)
(* if let Ok(locked) = app.try_read() *)
MainStart ==
  /\ running
  /\ pc["main"] = "start"
  /\ IF TryRead(lock)
     THEN lock' = [lock EXCEPT !.readers = 1] /\ Goto("main", "first_draw")
     ELSE UNCHANGED lock /\ Goto("main", "poll")
  /\ UNCHANGED <<app, d, op, new, chan, inbox, disk, screen, running, hist>>

MainFirstDraw ==
  /\ running
  /\ pc["main"] = "first_draw"
  /\ screen' = Draw(app)
  /\ Goto("main", "first_unlock")
  /\ UNCHANGED <<app, d, lock, op, new, chan, inbox, disk, running, hist>>

MainFirstUnlock ==
  /\ running
  /\ pc["main"] = "first_unlock"
  /\ lock' = [lock EXCEPT !.readers = 0]
  /\ Goto("main", "poll")
  /\ UNCHANGED <<app, d, op, new, chan, inbox, disk, screen, running, hist>>

(* rx.try_recv() gave Err(Empty): sleep and poll again *)
MainRecvEmpty == running /\ pc["main"] = "poll" /\ chan = <<>> /\ UNCHANGED vars

MainSkipRetrying(ev) ==
  /\ hist' = [hist EXCEPT !.dropped = IF Held(lock) THEN @ \cup {ev} ELSE @,
                       !.late = @ \ {ev}]
  /\ UNCHANGED <<app, d, lock, pc, op, new, chan, inbox, disk, screen, running>>

MainSkipBlocking(ev) == FALSE

(* try_write gave Err: the key is forgotten, sleep and poll again *)
MainSkip(ev) ==
  /\ hist' = [hist EXCEPT !.dropped = IF Held(lock) THEN @ \cup {ev} ELSE @,
                       !.late = @ \ {ev}]
  /\ chan' = Tail(chan)
  /\ UNCHANGED <<app, d, lock, pc, op, new, inbox, disk, screen, running>>

(* rx.try_recv() gave Ok(ev): if let Ok(mut locked) = app.try_write() *)
MainRecv ==
  /\ running
  /\ pc["main"] = "poll"
  /\ chan # <<>>
  /\ IF TryWrite(lock)
     THEN /\ lock' = [lock EXCEPT !.writer = "main"]
          /\ op' = [op EXCEPT !["main"] = Some(Head(chan))]
          /\ chan' = Tail(chan)
          /\ Goto("main", "locked")
          /\ Acquired
          /\ UNCHANGED <<app, d, new, inbox, disk, screen, running>>
     ELSE MainSkip(Head(chan))

MainKeyWithoutDraw ==
  /\ running
  /\ pc["main"] = "locked"
  /\ IF Unwrap(op["main"]).key = "r"
     THEN /\ Goto("main", "reload")
          /\ UNCHANGED <<app, hist>>
     ELSE /\ app' = HandleKey(app, Unwrap(op["main"]).key)
          /\ Goto("main", "unlock")
          /\ Acted("main")
  /\ UNCHANGED <<d, lock, op, new, chan, inbox, disk, screen, running>>

(* match ev { .. } *)
MainKey ==
  /\ running
  /\ pc["main"] = "locked"
  /\ IF Unwrap(op["main"]).key = "r"
     THEN /\ Goto("main", "reload")
          /\ UNCHANGED <<app, hist>>
     ELSE /\ app' = HandleKey(app, Unwrap(op["main"]).key)
          /\ Goto("main", "draw")
          /\ Acted("main")
  /\ UNCHANGED <<d, lock, op, new, chan, inbox, disk, screen, running>>

MainStep ==
  \/ MainStart \/ MainFirstDraw \/ MainFirstUnlock
  \/ MainRecvEmpty \/ MainRecv \/ MainKey
  \/ ReloadRead("main") \/ ReloadQuery("main") \/ ReloadAssign("main")
  \/ ReloadAssignRest("main") \/ DrawLocked("main") \/ Unlock("main")

WatcherStep(w) ==
  \/ WatchModify(w) \/ WatchOther(w)
  \/ ReloadRead(w) \/ ReloadQuery(w) \/ ReloadAssign(w)
  \/ ReloadAssignRest(w) \/ DrawLocked(w) \/ Unlock(w)

Next ==
  \/ KeyPress
  \/ EditSource
  \/ EditQuery
  \/ MainStart
  \/ MainFirstDraw
  \/ MainFirstUnlock
  \/ MainRecvEmpty
  \/ MainRecv
  \/ MainKey
  \/ \E w \in Watchers : WatchModify(w)
  \/ \E w \in Watchers : WatchOther(w)
  \/ \E t \in Threads : ReloadRead(t)
  \/ \E t \in Threads : ReloadQuery(t)
  \/ \E t \in Threads : ReloadAssign(t)
  \/ \E t \in Threads : ReloadAssignRest(t)
  \/ \E t \in Threads : DrawLocked(t)
  \/ \E t \in Threads : Unlock(t)

Spec == Init /\ [][Next]_vars

(* every thread that can run is scheduled in the end *)
Fairness ==
  /\ WF_vars(MainStep)
  /\ \A w \in Watchers : WF_vars(WatcherStep(w))

SpecFair == Spec /\ Fairness

(* SpecDraw starts in App::new with the root parsed, a node over the whole *)
(* text; the parser adds the nodes, then the query (if any) is compiled,   *)
(* then draw is called.                                                    *)
InitDraw ==
  /\ app = [AppNew(1, SourcePath, None, None) EXCEPT !.tree = FlatTree(1)]
  /\ d = [DrawIdle EXCEPT !.at = "parse"]
  /\ SyncInit

ParseNode ==
  /\ d.at = "parse"
  /\ app.tree.n < MaxNodes
  /\ \E t \in Grow(app.tree) : app' = [app EXCEPT !.tree = t]
  /\ UNCHANGED <<d, syncVars>>

NoQuery ==
  d.at = "parse" /\ d' = [d EXCEPT !.at = "idle"] /\ UNCHANGED <<app, syncVars>>

CompileQuery ==
  /\ d.at = "parse"
  /\ \E p \in PatternsFor(app.tree) :
       app' = [app EXCEPT !.query = Some(Query(p)), !.query_path = Some(QueryPath)]
  /\ d' = [d EXCEPT !.at = "idle"]
  /\ UNCHANGED syncVars

DrawCall == d.at = "idle" /\ d' = DrawBegin(app) /\ UNCHANGED <<app, syncVars>>

DrawLoop == d.at = "loop" /\ d' = LoopBody(app, d) /\ UNCHANGED <<app, syncVars>>

DrawAscend == d.at = "ascend" /\ d' = Ascend(app, d) /\ UNCHANGED <<app, syncVars>>

DrawFooter == d.at = "footer" /\ d' = WriteFooter(d) /\ UNCHANGED <<app, syncVars>>

NextDraw ==
  ParseNode \/ NoQuery \/ CompileQuery \/ DrawCall \/ DrawLoop \/ DrawAscend \/ DrawFooter

SpecDraw == InitDraw /\ [][NextDraw]_vars

(* ---------- SpecKeys: the key handlers called one after another ------- *)
(* The arms of the poll loop's match other than 'r', called in any order   *)
(* on an App with any Config the keys can produce.  hist.keys is the last  *)
(* two keys handled, hist.shadow the App before the last of them and       *)
(* hist.before the App before the two.                                     *)
MaxIndent == 4

Configs ==
  [indent_level : 0..MaxIndent, show_ranges : BOOLEAN, show_src : BOOLEAN,
   show_field_name : {ConfigNew.show_field_name}]

Apps ==
  {AppNew(v, SourcePath, None, None) : v \in 1..MaxVersion}
    \cup {AppNew(x[1], SourcePath, Some(QueryPath), QueryNew(x[2])) :
            x \in (1..MaxVersion) \X (1..MaxVersion)}

InitKeys ==
  /\ app \in {[x[1] EXCEPT !.config = x[2]] : x \in Apps \X Configs}
  /\ d = DrawIdle
  /\ lock = [writer |-> NoOne, readers |-> 0, poisoned |-> FALSE]
  /\ pc = [t \in Threads |-> Home(t)]
  /\ op = [t \in Threads |-> None]
  /\ new = [t \in Threads |-> None]
  /\ chan = <<>>
  /\ inbox = [w \in Watchers |-> <<>>]
  /\ disk = [source |-> Some(app.src), query |-> Some(1)]
  /\ screen = <<>>
  /\ running = TRUE
  /\ hist = [events |-> 0, acted |-> {}, dropped |-> {}, late |-> {}, missed |-> {},
             shadow |-> app, before |-> app, keys |-> <<>>]

Call(key) ==
  /\ app' = HandleKey(app, key)
  /\ hist' = [hist EXCEPT !.shadow = app,
                          !.before = IF hist.keys = <<>> THEN app ELSE hist.shadow,
                          !.keys = IF Len(@) < 2 THEN Append(@, key) ELSE <<@[2], key>>]
  /\ UNCHANGED <<d, lock, pc, op, new, chan, inbox, disk, screen, running>>

(* '>' => locked.increase_indent() *)
IncreaseIndent == running /\ app.config.indent_level < MaxIndent /\ Call(">")

(* '<' => locked.decrease_indent() *)
DecreaseIndent == running /\ Call("<")

(* 'n' => locked.toggle_ranges() *)
ToggleRanges == running /\ Call("n")

(* 's' => locked.toggle_source() *)
ToggleSource == running /\ Call("s")

(* _ => () *)
OtherKey == running /\ Call("x")

NextKeys == IncreaseIndent \/ DecreaseIndent \/ ToggleRanges \/ ToggleSource \/ OtherKey

SpecKeys == InitKeys /\ [][NextKeys]_vars

(* ======================= properties of main =========================== *)
InSection(t) == pc[t] \in WriteSection \cup ReadSection

Serial == hist.shadow

Queued ==
  {chan[k] : k \in 1..Len(chan)}
    \cup UNION {{inbox[w][k] : k \in 1..Len(inbox[w])} : w \in Watchers}
    \cup {Unwrap(op[t]) : t \in {u \in Threads : IsSome(op[u])}}

(* C1: a mutation attempt whose try_write fails because the lock is held   *)
(* elsewhere is a no-op: the App, the terminal, the lock and the files are *)
(* as they were, and the process goes on (no error).                       *)
C1_ContendedAttemptIsNoOp ==
  [][hist.dropped' # hist.dropped =>
       /\ app' = app
       /\ screen' = screen
       /\ lock' = lock
       /\ running' = running /\ running]_vars

C1_Witness ==
  /\ \E ev \in hist.dropped : ev.kind = "key" /\ ev.key \in {">", "<", "n", "s", "r"}
  /\ \E w \in Watchers : pc[w] \in ReloadPcs

(* C2: the mutate-then-redraw sections of different threads never overlap, *)
(* a draw sees the App exactly as its own handler left it (never a partly  *)
(* stored one), and whenever no section is open the App equals the result  *)
(* of applying the handlers that got the lock one after another.           *)
C2_Serializable ==
  /\ Cardinality({t \in Threads : InSection(t)}) <= 1
  /\ \A t \in Threads : pc[t] \in WriteSection => lock.writer = t
  /\ \A t \in Threads : pc[t] \in ReadSection => lock.readers = 1 /\ lock.writer = NoOne
  /\ pc["main"] = "first_draw" => app = Serial
  /\ \A t \in Threads :
       pc[t] \in {"draw", "unlock"} =>
         app = Sequential(Serial, Unwrap(op[t]),
                          IF IsSome(new[t]) THEN Unwrap(new[t]) ELSE None)
  /\ (\A t \in Threads : ~InSection(t)) => app = Serial

C2_Witness ==
  /\ \A t \in Threads : pc[t] = Home(t)
  /\ \E a \in hist.acted : \E b \in hist.acted : a.kind = "key" /\ b.kind = "modify"
  /\ app.config # ConfigNew
  /\ app.src # 1

(* C3: no thread ever waits for the lock: while the process runs, main can *)
(* always take a step, and so can every watcher callback that has been     *)
(* invoked or has a notification to deliver; and a lock that is held is    *)
(* released in the end (or the process has stopped): from any moment on,   *)
(* a moment comes at which the lock is free.                               *)
C3_NoDeadlock ==
  /\ [](running =>
          /\ ENABLED MainStep
          /\ \A w \in Watchers :
               (pc[w] \notin {"wait", "panicked"} \/ (pc[w] = "wait" /\ inbox[w] # <<>>))
                 => ENABLED (WatchModify(w) \/ ReloadRead(w) \/ ReloadQuery(w)
                               \/ ReloadAssign(w) \/ ReloadAssignRest(w)
                               \/ DrawLocked(w) \/ Unlock(w)))
  /\ []<>(~Held(lock) \/ ~running)

C3_Witness ==
  /\ pc["main"] = "poll"
  /\ chan = <<>>
  /\ hist.dropped # {}
  /\ \E w \in Watchers : lock.writer = w

(* C4 as claimed: after a failed reload the process is not running,        *)
(* whichever thread performed the reload.                                  *)
C4_FailedReloadAborts ==
  \A t \in Threads : pc[t] = "panicked" => ~running

(* C5 as claimed: an event that arrives while a reload is in progress is   *)
(* never applied to the App and never causes a redraw: its handler never   *)
(* gets as far as acting on it.  Stated for the events that arrive while   *)
(* the reload is running in the very thread that receives them.            *)
C5_ArrivedDuringReloadIsDropped ==
  \A ev \in hist.late : ev \notin hist.acted

(* C5 amended: an event whose handler's try_write is made while the lock   *)
(* is held is dropped: it is never applied and never causes a redraw, and  *)
(* it is neither queued nor retried.  (An event that arrives during a      *)
(* reload waits in the channel or with its watcher, and is handled when    *)
(* its try_write comes after the lock is free.)                            *)
C5_FailedAttemptIsDropped ==
  \A ev \in hist.dropped : ev \notin hist.acted /\ ev \notin Queued

(* a key was skipped by main while a watcher holds the lock for the first *)
(* write of all, and main is polling again                                *)
C5_Witness ==
  \E w \in Watchers : \E ev \in hist.dropped :
    /\ pc[w] \in ReloadPcs
    /\ hist.acted = {}
    /\ ev.kind = "key"
    /\ pc["main"] = "poll"

(* the view of the files as they are and of the current Config *)
FreshView ==
  Draw([app EXCEPT !.src = Unwrap(disk[SourcePath]),
                   !.tree = Parse(Unwrap(disk[SourcePath])),
                   !.query = IF IsSome(app.query_path)
                             THEN QueryNew(Unwrap(disk[QueryPath])) ELSE None])

(* C6 as claimed: once an event has been skipped because the lock was      *)
(* held, as soon as a later event's handler has then got the lock and      *)
(* drawn,                                                                  *)
(* the terminal shows the files as they are and the current Config.        *)
(* Stated for the newest event, with both files readable and compilable,   *)
(* so no file has changed since it arrived.                                *)
C6_LaterEventCorrects ==
  \A t \in Threads :
    ( /\ pc[t] = "unlock"
      /\ Unwrap(op[t]).id = hist.events
      /\ \E ev \in hist.missed : ev.id < Unwrap(op[t]).id
      /\ IsSome(disk[SourcePath])
      /\ IsSome(QueryNew(Unwrap(disk[QueryPath]))) )
    => screen = FreshView

(* ===================== properties of App::draw ======================== *)
Walking == d.at \notin {"parse", "idle"}

RangeOf(n) == app.tree.range[n]

Captured(n) == n \in DOMAIN d.capture_map

RegionBefore(i) == IF i = 1 THEN None ELSE d.out[i - 1].region

RECURSIVE NumAncestors(_, _)
NumAncestors(t, n) == IF t.parent[n] = 0 THEN 0 ELSE 1 + NumAncestors(t, t.parent[n])

RECURSIVE IsInSubtree(_, _, _)
IsInSubtree(t, n, top) ==
  n = top \/ (t.parent[n] # 0 /\ IsInSubtree(t, t.parent[n], top))

RECURSIVE PreOrder(_, _)
RECURSIVE PreOrderAll(_, _)
PreOrder(t, n) == <<n>> \o PreOrderAll(t, Children(t, n))
PreOrderAll(t, kids) ==
  IF kids = {} THEN <<>>
  ELSE PreOrder(t, Min(kids)) \o PreOrderAll(t, kids \ {Min(kids)})

Reference(t) ==
  LET order == PreOrder(t, Root)
  IN [i \in 1..t.n |-> [node |-> order[i], depth |-> NumAncestors(t, order[i])]]

Visited == [i \in 1..Len(d.out) |-> [node |-> d.out[i].node, depth |-> d.out[i].depth]]

(* C7: for every finite tree one draw visits every node exactly once, in   *)
(* pre-order, and prints each node at a depth equal to its number of       *)
(* ancestors: what has been emitted is always a prefix of the reference    *)
(* pre-order listing, and the whole of it once the walk is done.           *)
C7_WalkIsPreOrder ==
  Walking =>
    LET listing == Reference(app.tree)
    IN /\ Len(Visited) <= app.tree.n
       /\ Visited = SubSeq(listing, 1, Len(Visited))
       /\ (d.done => Visited = listing)

C7_Witness ==
  /\ d.at = "end"
  /\ app.tree.n = MaxNodes
  /\ \E i \in 1..(Len(d.out) - 1) :
       d.out[i].node > d.out[i + 1].node /\ d.out[i].depth = 2 /\ d.out[i + 1].depth = 1

(* the visits at which a captured node N lies inside the active region A *)
NestedVisits ==
  {i \in 1..Len(d.out) :
     /\ IsSome(RegionBefore(i))
     /\ Captured(d.out[i].node)
     /\ Encloses(Unwrap(RegionBefore(i)), RangeOf(d.out[i].node))}

StillInside(i, j) ==
  \A k \in i..j : Encloses(Unwrap(RegionBefore(i)), RangeOf(d.out[k].node))

(* C8 as claimed: when the walk visits a captured node N whose range is    *)
(* contained in the active region A, the region becomes N's range, and the *)
(* nodes after N's subtree that still lie inside A (and are neither        *)
(* captured nor inside N's range) are rendered unhighlighted.              *)
C8_NestedCaptureReplaces ==
  Walking =>
    \A i \in NestedVisits :
      /\ d.out[i].region = Some(RangeOf(d.out[i].node))
      /\ \A j \in (i + 1)..Len(d.out) :
           ( /\ ~IsInSubtree(app.tree, d.out[j].node, d.out[i].node)
             /\ StillInside(i, j)
             /\ ~Captured(d.out[j].node)
             /\ ~Encloses(RangeOf(d.out[i].node), RangeOf(d.out[j].node)) )
           => ~d.out[j].highlighted

(* C8 amended: when the walk visits a captured node N whose range is       *)
(* contained in the active region A, the region stays A, and every node    *)
(* visited after it stays highlighted with region A for as long as the     *)
(* walk has not left A's byte range.                                       *)
C8_NestedCaptureKeepsOuter ==
  Walking =>
    \A i \in NestedVisits :
      /\ d.out[i].region = RegionBefore(i)
      /\ \A j \in (i + 1)..Len(d.out) :
           StillInside(i, j) => (d.out[j].region = RegionBefore(i) /\ d.out[j].highlighted)

C8_Witness ==
  /\ d.at = "end"
  /\ \E i \in NestedVisits : \E j \in (i + 1)..Len(d.out) :
       /\ RangeOf(d.out[i].node) # Unwrap(RegionBefore(i))
       /\ ~IsInSubtree(app.tree, d.out[j].node, d.out[i].node)
       /\ StillInside(i, j)
       /\ ~Captured(d.out[j].node)
       /\ ~Encloses(RangeOf(d.out[i].node), RangeOf(d.out[j].node))
       /\ d.out[j].highlighted

(* the ranges of the captured nodes, when they are exactly two disjoint ones *)
CapturedRanges == {RangeOf(n) : n \in DOMAIN d.capture_map}

Disjoint(a, b) == a.end_byte <= b.start_byte \/ b.end_byte <= a.start_byte

TwoDisjoint ==
  /\ Cardinality(CapturedRanges) = 2
  /\ \A a \in CapturedRanges : \A b \in CapturedRanges \ {a} : Disjoint(a, b)

NonEmpty(a) == a.start_byte < a.end_byte

OutsideBoth(i) == \A a \in CapturedRanges : ~Encloses(a, RangeOf(d.out[i].node))

UnderCaptureOf(i, a) ==
  \E c \in DOMAIN d.capture_map :
    RangeOf(c) = a /\ IsInSubtree(app.tree, d.out[i].node, c)

(* C9 as claimed: with exactly two disjoint captured ranges A and B, a     *)
(* node contained in neither has no region after the transition, and a     *)
(* node whose range is contained in A has region A (likewise for B).       *)
(* Stated for non-empty A and B, where no range lies in both.              *)
C9_RegionByContainment ==
  (Walking /\ TwoDisjoint /\ \A a \in CapturedRanges : NonEmpty(a)) =>
    \A i \in 1..Len(d.out) :
      /\ OutsideBoth(i) => d.out[i].region = None
      /\ \A a \in CapturedRanges :
           Encloses(a, RangeOf(d.out[i].node)) => d.out[i].region = Some(a)

(* C9 amended: with exactly two disjoint captured ranges A and B, a node   *)
(* contained in neither has no region after the transition, and a node     *)
(* that is a captured node of range A or a descendant of one, and whose    *)
(* range is not also contained in B, has region A (likewise for B).        *)
C9_RegionUnderCapture ==
  (Walking /\ TwoDisjoint) =>
    \A i \in 1..Len(d.out) :
      /\ OutsideBoth(i) => d.out[i].region = None
      /\ \A a \in CapturedRanges :
           ( /\ UnderCaptureOf(i, a)
             /\ \A b \in CapturedRanges \ {a} : ~Encloses(b, RangeOf(d.out[i].node)) )
           => d.out[i].region = Some(a)

C9_Witness ==
  /\ d.at = "end"
  /\ TwoDisjoint
  /\ \E i \in 1..Len(d.out) : \E k \in (i + 1)..Len(d.out) : \E j \in (k + 1)..Len(d.out) :
       /\ IsSome(d.out[i].region) /\ IsSome(d.out[j].region)
       /\ d.out[i].region # d.out[j].region
       /\ OutsideBoth(k) /\ d.out[k].region = None
       /\ UnderCaptureOf(i, Unwrap(d.out[i].region))
       /\ UnderCaptureOf(j, Unwrap(d.out[j].region))

(* every capture of every match, in the order the matches are iterated *)
AllCaptures ==
  IF IsSome(app.query)
  THEN FlatMapCaptures(Matches(Unwrap(app.query).patterns, app.tree))
  ELSE <<>>

RECURSIVE IndicesOn(_, _)
IndicesOn(captures, n) ==
  IF captures = <<>> THEN <<>>
  ELSE IF captures[Len(captures)].node = n
       THEN Append(IndicesOn(SubSeq(captures, 1, Len(captures) - 1), n),
                   captures[Len(captures)].index)
       ELSE IndicesOn(SubSeq(captures, 1, Len(captures) - 1), n)

(* C10: the capture index maps each node X to the capture-slot indices of  *)
(* all the captures on X, one entry per capture (duplicates kept), in the  *)
(* order the captures are met when iterating the matches; nodes without    *)
(* captures are not keys.                                                  *)
C10_CaptureIndex ==
  Walking =>
    LET all == AllCaptures
    IN /\ DOMAIN d.capture_map = {all[k].node : k \in 1..Len(all)}
       /\ \A n \in DOMAIN d.capture_map :
            /\ d.capture_map[n] = IndicesOn(all, n)
            /\ Len(d.capture_map[n]) = Cardinality({k \in 1..Len(all) : all[k].node = n})

C10_Witness ==
  /\ d.at = "end"
  /\ \E n \in DOMAIN d.capture_map : d.capture_map[n] = <<1, 1>>
  /\ Len(Unwrap(app.query).patterns) = 2

(* =================== properties of the key handlers =================== *)
(* C11: toggle_ranges twice in a row, or toggle_source twice in a row,     *)
(* from any App restores the App, its Config included, exactly.            *)
C11_ToggleTwiceRestores ==
  (hist.keys = <<"n", "n">> \/ hist.keys = <<"s", "s">>) => app = hist.before

C11_Witness ==
  /\ hist.keys = <<"n", "n">>
  /\ ~app.config.show_ranges
  /\ hist.shadow.config.show_ranges
  /\ app.config.indent_level = 0

LastKey == hist.keys[Len(hist.keys)]

(* C12: the indentation width is never below 0: decrease_indent at 0       *)
(* leaves it at 0 and otherwise subtracts exactly 1, and increase_indent   *)
(* adds exactly 1, whatever the width was.                                 *)
C12_IndentSaturatesAtZero ==
  /\ app.config.indent_level >= 0
  /\ (hist.keys # <<>> /\ LastKey = "<") =>
       app.config.indent_level =
         (IF hist.shadow.config.indent_level = 0 THEN 0
          ELSE hist.shadow.config.indent_level - 1)
  /\ (hist.keys # <<>> /\ LastKey = ">") =>
       app.config.indent_level = hist.shadow.config.indent_level + 1

C12_Witness ==
  /\ hist.keys = <<"<", "<">>
  /\ hist.before.config.indent_level = 1
  /\ hist.shadow.config.indent_level = 0
  /\ app.config.indent_level = 0

(* ======================= properties of reload ========================= *)
(* C13: a reload that succeeds leaves Config, the source path, the query   *)
(* path and the grammar as they were before it, and stores the source, the *)
(* Tree and the Query built from what the files held when it read them;    *)
(* the Query is present afterwards iff a query path was configured.        *)
C13_ReloadFrame ==
  /\ [](\A t \in Threads :
          (pc[t] \in {"draw", "unlock"} /\ IsReload(Unwrap(op[t]))) =>
            /\ app.config = Serial.config
            /\ app.path = Serial.path
            /\ app.query_path = Serial.query_path
            /\ app.language = Serial.language
            /\ app.src = Unwrap(new[t]).src
            /\ app.tree = Parse(app.src)
            /\ app.query = Unwrap(new[t]).query
            /\ IsSome(app.query) <=> IsSome(app.query_path))
  /\ [][\A t \in Threads :
          /\ (pc[t] = "reload" /\ pc'[t] = "reload_query") =>
               Unwrap(new'[t]).src = Unwrap(disk[app.path])
          /\ (pc[t] = "reload_query" /\ pc'[t] = "assign" /\ IsSome(app.query_path)) =>
               Unwrap(new'[t]).query = QueryNew(Unwrap(disk[Unwrap(app.query_path)]))]_vars

C13_Witness ==
  \E t \in Threads :
    /\ pc[t] = "unlock"
    /\ IsReload(Unwrap(op[t]))
    /\ app.config # ConfigNew
    /\ app.src # Serial.src
    /\ IsSome(app.query)

(* ===================== properties of the poll loop ===================== *)
Recognized == {">", "<", "n", "s", "r"}

(* C14 as claimed: a key other than '>', '<', 'n', 's', 'r' is ignored:    *)
(* while main handles it the App is as it was before, and main never gets  *)
(* past a draw for it.                                                     *)
C14_OtherKeyIgnored ==
  (IsSome(op["main"]) /\ Unwrap(op["main"]).key \notin Recognized) =>
    (app = Serial /\ pc["main"] # "unlock")


(* the region rule in three steps: an active region that does not contain  *)
(* r is cleared; then, with no region active, a captured node makes the    *)
(* region r; otherwise the region stays                                    *)
Cleared(previous, r) ==
  IF IsSome(previous)
       /\ ~(Unwrap(previous).start_byte <= r.start_byte /\ Unwrap(previous).end_byte >= r.end_byte)
  THEN None ELSE previous

ThreeStepRule(previous, r, captured) ==
  IF ~IsSome(Cleared(previous, r)) /\ captured THEN Some(r) ELSE Cleared(previous, r)

(* C15: at every visited node with range r the region after the update of  *)
(* draw is the one the three-step rule gives from the region before the    *)
(* visit, r and whether the node is a key of the capture index; the line   *)
(* of the node is highlighted exactly when that region is active.          *)
C15_RegionUpdateRule ==
  Walking =>
    \A i \in 1..Len(d.out) :
      /\ d.out[i].region =
           ThreeStepRule(RegionBefore(i), RangeOf(d.out[i].node), Captured(d.out[i].node))
      /\ d.out[i].highlighted <=> IsSome(d.out[i].region)

(* a walk in which the region was set at a captured node, replaced at a    *)
(* captured node outside it, cleared at a node outside it, and left absent *)
(* at a node that is not captured                                          *)
C15_Witness ==
  /\ d.at = "end"
  /\ \E i \in 1..Len(d.out) :
       ~IsSome(RegionBefore(i)) /\ Captured(d.out[i].node) /\ d.out[i].highlighted
  /\ \E i \in 1..Len(d.out) :
       /\ IsSome(RegionBefore(i)) /\ Captured(d.out[i].node)
       /\ d.out[i].region = Some(RangeOf(d.out[i].node))
       /\ d.out[i].region # RegionBefore(i)
  /\ \E i \in 1..Len(d.out) :
       IsSome(RegionBefore(i)) /\ ~Captured(d.out[i].node) /\ ~d.out[i].highlighted
  /\ \E i \in 1..Len(d.out) :
       ~IsSome(RegionBefore(i)) /\ ~Captured(d.out[i].node) /\ ~d.out[i].highlighted


CapturedRegion(region) ==
  ~IsSome(region) \/ \E n \in DOMAIN d.capture_map : region = Some(RangeOf(n))

(* C16: at every point of a walk the region is absent or is the range of a *)
(* node that is a key of the capture index; without a query the capture    *)
(* index is empty, the region is absent at every node, no line is          *)
(* highlighted and no line carries a capture tag.                          *)
C16_RegionIsCapturedRange ==
  Walking =>
    /\ CapturedRegion(d.in_capture)
    /\ \A i \in 1..Len(d.out) : CapturedRegion(d.out[i].region)
    /\ ~IsSome(app.query) =>
         /\ d.capture_map = EmptyMap
         /\ d.in_capture = None
         /\ \A i \in 1..Len(d.out) :
              ~IsSome(d.out[i].region) /\ ~d.out[i].highlighted /\ d.out[i].tags = <<>>

(* a finished walk with a query, in which the region was the range of a    *)
(* captured node at one line and absent at a later one                     *)
C16_Witness ==
  /\ d.at = "end"
  /\ IsSome(app.query)
  /\ \E i \in 1..Len(d.out) : \E j \in (i + 1)..Len(d.out) :
       /\ IsSome(d.out[i].region)
       /\ d.out[i].region = Some(RangeOf(d.out[i].node))
       /\ Captured(d.out[i].node)
       /\ ~IsSome(d.out[j].region)


(* what is left of a walk: the nodes not yet printed, the levels to climb  *)
(* and the footer                                                          *)
Remaining(st) ==
  (app.tree.n - Len(st.out)) * (app.tree.n + 1) + st.depth
    + (CASE st.at = "end" -> 0 [] st.at = "footer" -> 1 [] OTHER -> 2)

LastPrinted(st) == st.at = "ascend" /\ Len(st.out) = app.tree.n

(* C17: for every finite tree the walk terminates: a step of the walk is   *)
(* always possible until its end and each one lowers a natural-valued      *)
(* measure; once the last node in pre-order is printed the cursor climbs   *)
(* one parent per step, lowering depth by one each time, and the walk      *)
(* stops exactly when the cursor is at the root, with depth 0; depth is    *)
(* never negative, and never 0 at a visited node other than the root.      *)
C17_WalkTerminates ==
  /\ [](Walking =>
          /\ d.depth >= 0
          /\ Remaining(d) >= 0
          /\ d.at # "end" => ENABLED <<NextDraw>>_vars
          /\ \A i \in 1..Len(d.out) :
               d.out[i].depth >= 0 /\ (d.out[i].node # Root => d.out[i].depth > 0)
          /\ d.done <=> d.at \in {"footer", "end"}
          /\ d.done => (d.depth = 0 /\ d.cursor = Root /\ Len(d.out) = app.tree.n))
  /\ [][Walking =>
          /\ Remaining(d') < Remaining(d)
          /\ LastPrinted(d) =>
               IF d.cursor = Root
               THEN d'.done /\ d'.depth = 0 /\ d.depth = 0
               ELSE /\ ~d'.done
                    /\ d'.cursor = app.tree.parent[d.cursor]
                    /\ d'.depth = d.depth - 1
                    /\ LastPrinted(d')]_vars

(* a finished walk of a tree whose last node in pre-order lies two levels  *)
(* below the root                                                          *)
C17_Witness ==
  /\ d.at = "end"
  /\ d.done
  /\ d.depth = 0
  /\ Len(d.out) = app.tree.n
  /\ d.out[Len(d.out)].depth = 2


OnlyConfigField(before, after, field) ==
  after = [before EXCEPT !.config[field] = after.config[field]]

MainHandles(key) ==
  /\ pc["main"] = "locked"
  /\ pc'["main"] = "draw"
  /\ Unwrap(op["main"]).key = key

(* C18: increase_indent and decrease_indent change nothing of the App but  *)
(* the indentation, toggle_ranges nothing but show_ranges, toggle_source   *)
(* nothing but show_src: the other Config fields, the source, the tree,    *)
(* the query and the paths stay; no step of the program changes            *)
(* show_field_name, which is true in every reachable state.                *)
C18_HandlersFrame ==
  /\ [](app.config.show_field_name = TRUE)
  /\ [][/\ app'.config.show_field_name = app.config.show_field_name
        /\ MainHandles(">") => OnlyConfigField(app, app', "indent_level")
        /\ MainHandles("<") => OnlyConfigField(app, app', "indent_level")
        /\ MainHandles("n") => OnlyConfigField(app, app', "show_ranges")
        /\ MainHandles("s") => OnlyConfigField(app, app', "show_src")]_vars

(* the main thread has handled 's' after an earlier change of the          *)
(* indentation: both fields differ from Config::new, show_field_name not   *)
C18_Witness ==
  /\ pc["main"] = "unlock"
  /\ Unwrap(op["main"]).key = "s"
  /\ app.config.show_src # ConfigNew.show_src
  /\ app.config.indent_level # ConfigNew.indent_level
  /\ app.config.show_ranges = ConfigNew.show_ranges
  /\ app.config.show_field_name


DrawCompleted == screen # <<>>

Nested(t) == \A n \in 2..t.n : Encloses(t.range[t.parent[n]], t.range[n])

UnderCapture(i) ==
  \E c \in DOMAIN d.capture_map : IsInSubtree(app.tree, d.out[i].node, c)

(* C20: in a walk of a tree in which every child's range lies within its   *)
(* parent's, every node that is a key of the capture index and every       *)
(* descendant of such a node is printed highlighted, with a region active, *)
(* whatever the region was before the node was visited.                    *)
C20_CapturedSubtreeHighlighted ==
  (Walking /\ Nested(app.tree)) =>
    \A i \in 1..Len(d.out) :
      UnderCapture(i) => (d.out[i].highlighted /\ IsSome(d.out[i].region))

(* a finished walk in which a captured node is visited while the region of *)
(* an earlier captured node that does not contain it is active, and a node *)
(* below it, not captured itself, is printed highlighted                   *)
C20_Witness ==
  /\ d.at = "end"
  /\ Nested(app.tree)
  /\ \E i \in 1..Len(d.out) : \E j \in (i + 1)..Len(d.out) :
       /\ Captured(d.out[i].node)
       /\ IsSome(RegionBefore(i))
       /\ ~Encloses(Unwrap(RegionBefore(i)), RangeOf(d.out[i].node))
       /\ ~Captured(d.out[j].node)
       /\ app.tree.parent[d.out[j].node] = d.out[i].node
       /\ d.out[j].highlighted

====
